---- MODULE Spec2Model ----
(***************************************************************************)
(* Model of the XML -> records -> tables extraction of the repository:     *)
(*   src/crear_dataframes.py      the event pipeline ("crear_dataframes")  *)
(*   src/ETL/crear_dataframes.py  the statistics-only pipeline ("ETL")     *)
(* and of the downloader that fills the games folder:                      *)
(*   src/ETL/extraccion_de_datos.py  ("extraccion_de_datos", DownloadSpec) *)
(*                                                                         *)
(* Representation.                                                         *)
(*  - An XML element is a record whose field attrib is its attribute map   *)
(*    (a function from attribute names to strings) and whose other fields  *)
(*    are the lists of its children with a given tag, in document order.   *)
(*  - Element.find(...) returns the first matching element or None; an     *)
(*    optional element is the sequence <<>> (None) or <<element>>.         *)
(*  - A Python dict with string keys is a function with a string domain;   *)
(*    the value None stored in a dict is the string None below.            *)
(*  - A competitor lists its own statistics child before its players       *)
(*    child, as the feed does.                                             *)
(***************************************************************************)
EXTENDS Integers, Sequences, FiniteSets, TLC

\* ------------------------------------------------------------------ bounds
\* number of *.xml files in the games folder
MaxFiles == 3
\* an exception can be raised in iteration 1..MaxRaise of a parser's loop
MaxRaise == 2
\* download_xml is explored for max_retries in 1..MaxRetries
MaxRetries == 3
\* number of schedule nodes in a season's schedule
MaxEvents == 2

\* ---------------------------------------------------------------- helpers
\* Python's None as a dict value / attribute lookup result
None == "None"

\* the empty attribute map / empty dict
EmptyDict == <<>>

\* Optional[T]: <<>> is None, <<v>> is v
Absent == <<>>

IsNone(opt) == opt = Absent

\* Element.get(key): the attribute's string, or None when it is missing
get(elem, key) == IF key \in DOMAIN elem.attrib THEN elem.attrib[key] ELSE None

\* Element.find(path) over the list of matching elements in document order
find(matches) == IF matches = <<>> THEN Absent ELSE <<Head(matches)>>

\* update that keeps a key the record already has (setdefault)
update_setdefault(stats, attrib) == stats @@ attrib

\* for key, value in attrib.items(): stats[key] = value
update(stats, attrib) == attrib @@ stats

\* extend that puts the new items in front
extend_front(list, items) == items \o list

\* list.extend(items)
extend(list, items) == list \o items

RECURSIVE Concat(_)
Concat(seqs) == IF seqs = <<>> THEN <<>> ELSE Head(seqs) \o Concat(Tail(seqs))

Prefix(s, n) == SubSeq(s, 1, IF n < Len(s) THEN n ELSE Len(s))

\* ----------------------------------------------------- document universe
Elem(a) == [attrib |-> a]

\* sport_event attributes: id and start_time, either may be missing
SportEventAttribs ==
    { [id |-> "sr:sport_event:1", start_time |-> "2024-08-17T19:00:00+00:00"],
      [id |-> "sr:sport_event:2", start_time |-> "not-a-date"],
      [id |-> "sr:sport_event:2"],
      [start_time |-> "2024-08-18T17:00:00+00:00"] }

FullStatus ==
    Elem([status |-> "closed", match_status |-> "ended",
          home_score |-> "2", away_score |-> "1"])

StatusLists == { <<>>, <<FullStatus>>, <<Elem([status |-> "not_started"])>> }

FullContext ==
    [sport       |-> <<Elem([name |-> "Soccer"])>>,
     category    |-> <<Elem([name |-> "Spain"])>>,
     competition |-> <<Elem([name |-> "LaLiga", id |-> "sr:competition:8"])>>,
     season      |-> <<Elem([name |-> "LaLiga 24/25", id |-> "sr:season:118691"])>>,
     round       |-> <<Elem([number |-> "1"])>>]

ContextSubNodes == {"sport", "category", "competition", "season", "round"}

\* the context node: missing, complete, with one sub-node missing, or empty
ContextLists ==
    { <<>>, <<FullContext>> }
    \cup { <<[FullContext EXCEPT ![n] = <<>>]>> : n \in ContextSubNodes }
    \cup { <<[n \in ContextSubNodes |-> <<>>]>> }

VenueLists ==
    { <<>>, <<Elem([name |-> "Bernabeu", city_name |-> "Madrid", capacity |-> "81044"])>> }

ConditionsLists ==
    { <<>>,
      <<[attendance |-> <<>>]>>,
      <<[attendance |-> <<Elem([count |-> "70000"])>>]>> }

HomeComp == Elem([id |-> "sr:competitor:1", name |-> "Home FC", qualifier |-> "home"])
AwayComp == Elem([id |-> "sr:competitor:2", name |-> "Away CF", qualifier |-> "away"])
BareComp == Elem([id |-> "sr:competitor:3", name |-> "Third"])
OddComp  == Elem([id |-> "sr:competitor:4", name |-> "Fourth", qualifier |-> "neutral"])
HomeComp2 == Elem([id |-> "sr:competitor:5", name |-> "Home B", qualifier |-> "home"])

EventCompetitorLists ==
    { <<>>, <<HomeComp, AwayComp>>, <<AwayComp, HomeComp>>, <<HomeComp, BareComp>>,
      <<OddComp, AwayComp>>, <<HomeComp, HomeComp2, AwayComp>> }

SportEvents ==
    { [attrib |-> a, sport_event_context |-> c, competitors |-> k,
       venue |-> v, sport_event_conditions |-> s] :
        a \in SportEventAttribs, c \in ContextLists, k \in EventCompetitorLists,
        v \in VenueLists, s \in ConditionsLists }

FullSportEvent ==
    [attrib |-> [id |-> "sr:sport_event:1", start_time |-> "2024-08-17T19:00:00+00:00"],
     sport_event_context |-> <<FullContext>>,
     competitors |-> <<HomeComp, AwayComp>>,
     venue |-> <<Elem([name |-> "Bernabeu", city_name |-> "Madrid", capacity |-> "81044"])>>,
     sport_event_conditions |-> <<[attendance |-> <<Elem([count |-> "70000"])>>]>>]

\* statistics attribute bags; some names collide with the records' own keys
TeamStatisticsLists ==
    { <<>>,
      <<Elem(EmptyDict)>>,
      <<Elem([ball_possession |-> "55", shots_total |-> "12"])>>,
      <<Elem([shots_total |-> "n/a", score |-> "9"])>>,
      <<Elem([corner_kicks |-> "4", team_qualifier |-> "guest"])>> }

Player1 == [attrib |-> [id |-> "sr:player:1", name |-> "Uno", starter |-> "true"],
            statistics |-> <<Elem([goals_scored |-> "1", assists |-> "0"])>>]
Player2 == [attrib |-> [id |-> "sr:player:2", name |-> "Dos", starter |-> "false"],
            statistics |-> <<>>]
Player3 == [attrib |-> [id |-> "sr:player:3", name |-> "Tres"],
            statistics |-> <<Elem([goals_scored |-> "x", event_id |-> "sr:sport_event:77"])>>]
Player4 == [attrib |-> [id |-> "sr:player:4", name |-> "Cuatro", starter |-> "1"],
            statistics |-> <<Elem([yellow_cards |-> "1"])>>]

Player5 == [attrib |-> [id |-> "sr:player:5", name |-> "Cinco", starter |-> "True"],
            statistics |-> <<>>]
Player6 == [attrib |-> [id |-> "sr:player:6", name |-> "Seis", starter |-> ""],
            statistics |-> <<Elem([assists |-> "2"])>>]

PlayerLists ==
    { <<>>, <<Player1>>, <<Player1, Player2>>, <<Player3>>, <<Player4, Player1>>,
      <<Player5, Player6>> }

TotalsCompetitors ==
    { [attrib |-> c.attrib, statistics |-> s, players |-> p] :
        c \in {HomeComp, AwayComp, BareComp}, s \in TeamStatisticsLists, p \in PlayerLists }

HomeTotals == [attrib |-> HomeComp.attrib,
               statistics |-> <<Elem([ball_possession |-> "55", shots_total |-> "12"])>>,
               players |-> <<Player1, Player2>>]
AwayTotals == [attrib |-> AwayComp.attrib,
               statistics |-> <<Elem([shots_total |-> "n/a", score |-> "9"])>>,
               players |-> <<Player3>>]
BareTotals == [attrib |-> BareComp.attrib, statistics |-> <<>>, players |-> <<>>]

\* the second competitor of a two-competitor totals block
SecondCompetitors ==
    { AwayTotals, BareTotals,
      [HomeTotals EXCEPT !.players = <<>>],
      [AwayTotals EXCEPT !.statistics = <<Elem([corner_kicks |-> "4"])>>,
                         !.players = <<Player4, Player1>>] }

TotalsLists ==
    { <<>> } \cup { <<c>> : c \in TotalsCompetitors }
             \cup { <<c, d>> : c \in TotalsCompetitors, d \in SecondCompetitors }

Document(se, st, tot) ==
    [wellformed |-> TRUE, sport_event |-> se, sport_event_status |-> st, totals |-> tot]

\* a file whose markup ET.parse rejects
Malformed ==
    [wellformed |-> FALSE, sport_event |-> <<>>, sport_event_status |-> <<>>, totals |-> <<>>]

FullDocument == Document(<<FullSportEvent>>, <<FullStatus>>, <<HomeTotals, AwayTotals>>)

\* documents that vary the event part, without a statistics block
EventDocuments ==
    { Document(<<se>>, st, <<>>) : se \in SportEvents, st \in StatusLists }
    \cup { Document(<<>>, st, <<>>) : st \in StatusLists }

\* documents that vary the statistics block over a fixed event part
StatisticsDocuments ==
    { Document(se, st, tot) :
        se \in {<<>>, <<FullSportEvent>>}, st \in {<<>>, <<FullStatus>>}, tot \in TotalsLists }

DocUniverse == {Malformed} \cup EventDocuments \cup StatisticsDocuments

\* the documents of folders with more than one file
CorpusDocs ==
    { Malformed,
      FullDocument,
      Document(<<[FullSportEvent EXCEPT !.attrib.id = "sr:sport_event:2"]>>, <<FullStatus>>,
               <<[AwayTotals EXCEPT !.players = <<>>], BareTotals>>),
      Document(<<>>, <<FullStatus>>, <<HomeTotals>>),
      Document(<<FullSportEvent>>, <<>>, <<HomeTotals, AwayTotals>>),
      Document(<<[FullSportEvent EXCEPT !.sport_event_context = <<>>]>>, <<FullStatus>>,
               <<HomeTotals>>),
      Document(<<[FullSportEvent EXCEPT !.venue = <<>>]>>, <<FullStatus>>, <<>>) }

\* ------------------------------------------------------------- logging
\* one logger.error / logger.warning call: the message, and the file name and
\* event id the message text carries (file 0 / event_id "" when it names none)
LogEntry(level, msg, file, event_id) ==
    [level |-> level, msg |-> msg, file |-> file, event_id |-> event_id]

\* ---------------------------------------- src/crear_dataframes.py : parsing
\* ET.parse(xml_path).getroot(): raises ET.ParseError on malformed markup
ET_parse(doc) == [raised |-> ~doc.wellformed, root |-> doc]

\* home is the first competitor and away the second, whatever their qualifier
QualifiedAttr_by_position(competitors, qualifier, key) ==
    LET k == IF qualifier = "home" THEN 1 ELSE 2
    IN IF k \in DOMAIN competitors THEN get(competitors[k], key) ELSE None

\* lines 67-76: the last competitor carrying the qualifier wins
RECURSIVE QualifiedAttr(_, _, _)
QualifiedAttr(competitors, qualifier, key) ==
    IF competitors = <<>> THEN None
    ELSE LET last == competitors[Len(competitors)]
         IN IF get(last, "qualifier") = qualifier
            THEN get(last, key)
            ELSE QualifiedAttr(SubSeq(competitors, 1, Len(competitors) - 1), qualifier, key)

\* lines 98-111: node.get(key) if node is not None else None
getOpt(node, key) == IF IsNone(node) THEN None ELSE get(node[1], key)

\* lines 82-87
Attendance(sport_event) ==
    LET conditions == find(sport_event.sport_event_conditions)
    IN IF IsNone(conditions) THEN None
       ELSE getOpt(find(conditions[1].attendance), "count")

\* sport_event.get('id', '') in place of sport_event.get('id')
EventId_default_empty(sport_event) ==
    IF "id" \in DOMAIN sport_event.attrib THEN sport_event.attrib["id"] ELSE ""

\* line 54: 'event_id': sport_event.get('id')
EventId(sport_event) == get(sport_event, "id")

\* lines 53-117, once sport_event, sport_event_status and context are located
EventDict(sport_event, sport_event_status, context) ==
    [event_id         |-> EventId(sport_event),
     start_time       |-> get(sport_event, "start_time"),
     sport_name       |-> getOpt(find(context.sport), "name"),
     category_name    |-> getOpt(find(context.category), "name"),
     competition_name |-> getOpt(find(context.competition), "name"),
     competition_id   |-> getOpt(find(context.competition), "id"),
     season_name      |-> getOpt(find(context.season), "name"),
     season_id        |-> getOpt(find(context.season), "id"),
     round_number     |-> getOpt(find(context.round), "number"),
     home_team        |-> QualifiedAttr(sport_event.competitors, "home", "name"),
     home_team_id     |-> QualifiedAttr(sport_event.competitors, "home", "id"),
     away_team        |-> QualifiedAttr(sport_event.competitors, "away", "name"),
     away_team_id     |-> QualifiedAttr(sport_event.competitors, "away", "id"),
     venue_name       |-> getOpt(find(sport_event.venue), "name"),
     venue_city       |-> getOpt(find(sport_event.venue), "city_name"),
     venue_capacity   |-> getOpt(find(sport_event.venue), "capacity"),
     attendance       |-> Attendance(sport_event),
     status           |-> get(sport_event_status, "status"),
     match_status     |-> get(sport_event_status, "match_status"),
     home_score       |-> get(sport_event_status, "home_score"),
     away_score       |-> get(sport_event_status, "away_score")]

\* parse_event_info_try requiring the sport_event node only
parse_event_info_try_status_optional(root) ==
    LET sport_event        == find(root.sport_event)
        sport_event_status == find(root.sport_event_status)
    IN IF IsNone(sport_event)
       THEN [raised |-> FALSE, value |-> Absent]
       ELSE LET context == find(sport_event[1].sport_event_context)
            IN IF IsNone(context)
               THEN [raised |-> TRUE, value |-> Absent]
               ELSE [raised |-> FALSE,
                     value  |-> <<EventDict(sport_event[1],
                                            IF IsNone(sport_event_status) THEN Elem(EmptyDict)
                                            ELSE sport_event_status[1],
                                            context[1])>>]

\* the try body of parse_event_info (lines 47-117): context.find(...) on a
\* missing context node raises AttributeError at line 59
parse_event_info_try(root) ==
    LET sport_event        == find(root.sport_event)
        sport_event_status == find(root.sport_event_status)
    IN IF IsNone(sport_event) \/ IsNone(sport_event_status)
       THEN [raised |-> FALSE, value |-> Absent]
       ELSE LET context == find(sport_event[1].sport_event_context)
            IN IF IsNone(context)
               THEN [raised |-> TRUE, value |-> Absent]
               ELSE [raised |-> FALSE,
                     value  |-> <<EventDict(sport_event[1], sport_event_status[1], context[1])>>]

\* parse_event_info: except Exception -> logger.error, return None
parse_event_info(root) ==
    LET r == parse_event_info_try(root)
    IN IF r.raised
       THEN [value |-> Absent,
             log   |-> <<LogEntry("ERROR", "Error parseando informacion del evento", 0, "")>>]
       ELSE [value |-> r.value, log |-> <<>>]

\* comp.find('.//ns:statistics'): the first statistics element among the
\* competitor's descendants in document order
CompetitorStatistics(comp) ==
    find(comp.statistics \o Concat([i \in DOMAIN comp.players |-> comp.players[i].statistics]))

StatisticsAttrib(statistics_elem) ==
    IF IsNone(statistics_elem) THEN EmptyDict ELSE statistics_elem[1].attrib

\* TeamRecord reading the wrong attribute into team_qualifier
TeamRecord_wrong_attribute(comp, event_id) ==
    update([event_id       |-> event_id,
            team_id        |-> get(comp, "id"),
            team_name      |-> get(comp, "name"),
            team_qualifier |-> get(comp, "name")],
           StatisticsAttrib(CompetitorStatistics(comp)))

\* lines 137-148: the record of one competitor
TeamRecord(comp, event_id) ==
    update([event_id       |-> event_id,
            team_id        |-> get(comp, "id"),
            team_name      |-> get(comp, "name"),
            team_qualifier |-> get(comp, "qualifier")],
           StatisticsAttrib(CompetitorStatistics(comp)))

\* the iteration in which an exception ends a loop over n items, 0 if none does
RaisedAt(raise_at, n) == IF 1 <= raise_at /\ raise_at <= n THEN raise_at ELSE 0

\* parse_team_statistics that leaves out a competitor without player nodes
parse_team_statistics_with_players(root, event_id, raise_at) ==
    LET competitors == SelectSeq(root.totals, LAMBDA comp : comp.players # <<>>)
    IN [value |-> [i \in DOMAIN competitors |-> TeamRecord(competitors[i], event_id)],
        log   |-> <<>>]

\* parse_team_statistics(root, event_id); raise_at: an exception is raised in
\* that iteration of the loop over competitors, before its append (0: never).
\* The except clause logs and falls through to `return team_stats`.
parse_team_statistics(root, event_id, raise_at) ==
    LET competitors == root.totals
        k     == RaisedAt(raise_at, Len(competitors))
        done  == IF k = 0 THEN Len(competitors) ELSE k - 1
    IN [value |-> [i \in 1..done |-> TeamRecord(competitors[i], event_id)],
        log   |-> IF k = 0 THEN <<>>
                  ELSE <<LogEntry("ERROR", "Error parseando estadisticas de equipos", 0, event_id)>>]

\* lines 179-193: the record of one player of a competitor
PlayerRecord(comp, player, event_id) ==
    update([event_id       |-> event_id,
            team_id        |-> get(comp, "id"),
            team_name      |-> get(comp, "name"),
            team_qualifier |-> get(comp, "qualifier"),
            player_id      |-> get(player, "id"),
            player_name    |-> get(player, "name"),
            starter        |-> get(player, "starter")],
           StatisticsAttrib(find(player.statistics)))

\* the nested loops of lines 171-195, flattened in document order
PlayerRecords(competitors, event_id) ==
    Concat([c \in DOMAIN competitors |->
              [p \in DOMAIN competitors[c].players |->
                 PlayerRecord(competitors[c], competitors[c].players[p], event_id)]])

\* parse_player_statistics(root, event_id); raise_at as in parse_team_statistics,
\* counting the iterations of the inner loop over players
parse_player_statistics(root, event_id, raise_at) ==
    LET all  == PlayerRecords(root.totals, event_id)
        k    == RaisedAt(raise_at, Len(all))
        done == IF k = 0 THEN Len(all) ELSE k - 1
    IN [value |-> Prefix(all, done),
        log   |-> IF k = 0 THEN <<>>
                  ELSE <<LogEntry("ERROR", "Error parseando estadisticas de jugadores", 0, event_id)>>]

NothingExtracted(log) ==
    [event_info |-> Absent, team_stats |-> <<>>, player_stats |-> <<>>,
     log |-> log, raised |-> FALSE]

\* process_xml_file, lines 214-228: the try body once the file is parsed
extract(root, raise_team, raise_player) ==
    LET event_info == parse_event_info(root)
    IN IF IsNone(event_info.value)
       THEN NothingExtracted(event_info.log)
       ELSE LET event_id     == event_info.value[1].event_id
                team_stats   == parse_team_statistics(root, event_id, raise_team)
                player_stats == parse_player_statistics(root, event_id, raise_player)
            IN [event_info   |-> event_info.value,
                team_stats   |-> team_stats.value,
                player_stats |-> player_stats.value,
                log          |-> event_info.log \o team_stats.log \o player_stats.log,
                raised       |-> FALSE]

\* process_xml_file without its except clauses: ET.ParseError escapes
process_xml_file_unhandled(xml_path, doc, raise_team, raise_player) ==
    LET parsed == ET_parse(doc)
    IN IF parsed.raised
       THEN [NothingExtracted(<<>>) EXCEPT !.raised = TRUE]
       ELSE extract(parsed.root, raise_team, raise_player)

\* process_xml_file(xml_path) of the event pipeline; doc is the file's content
process_xml_file(xml_path, doc, raise_team, raise_player) ==
    LET parsed == ET_parse(doc)
    IN IF parsed.raised
       THEN NothingExtracted(<<LogEntry("ERROR", "Error parseando XML", xml_path, "")>>)
       ELSE extract(parsed.root, raise_team, raise_player)

\* ------------------------------------ src/ETL/crear_dataframes.py : parsing
\* lines 59-73: the record of one competitor, with the event-level status
ETL_TeamRecord(comp, event_id, sport_event_status) ==
    LET qualifier == get(comp, "qualifier")
    IN update([event_id       |-> event_id,
               team_id        |-> get(comp, "id"),
               team_name      |-> get(comp, "name"),
               team_qualifier |-> qualifier,
               event_status   |-> getOpt(sport_event_status, "status"),
               match_status   |-> getOpt(sport_event_status, "match_status"),
               score          |-> IF qualifier = "home"
                                  THEN getOpt(sport_event_status, "home_score")
                                  ELSE getOpt(sport_event_status, "away_score")],
              StatisticsAttrib(CompetitorStatistics(comp)))

\* parse_team_statistics of the ETL pipeline (lines 38-80)
ETL_parse_team_statistics(root, event_id, raise_at) ==
    LET sport_event_status == find(root.sport_event_status)
        competitors == root.totals
        k     == RaisedAt(raise_at, Len(competitors))
        done  == IF k = 0 THEN Len(competitors) ELSE k - 1
    IN [value |-> [i \in 1..done |-> ETL_TeamRecord(competitors[i], event_id, sport_event_status)],
        log   |-> IF k = 0 THEN <<>>
                  ELSE <<LogEntry("ERROR", "Error parseando estadisticas de equipos", 0, event_id)>>]

\* parse_player_statistics of the ETL pipeline (lines 83-125)
ETL_PlayerRecord(comp, player, event_id) ==
    update([event_id       |-> event_id,
            team_id        |-> get(comp, "id"),
            team_name      |-> get(comp, "name"),
            team_qualifier |-> get(comp, "qualifier"),
            player_id      |-> get(player, "id"),
            player_name    |-> get(player, "name"),
            starter        |-> get(player, "starter")],
           StatisticsAttrib(find(player.statistics)))

ETL_parse_player_statistics(root, event_id, raise_at) ==
    LET competitors == root.totals
        all  == Concat([c \in DOMAIN competitors |->
                          [p \in DOMAIN competitors[c].players |->
                             ETL_PlayerRecord(competitors[c], competitors[c].players[p], event_id)]])
        k    == RaisedAt(raise_at, Len(all))
        done == IF k = 0 THEN Len(all) ELSE k - 1
    IN [value |-> Prefix(all, done),
        log   |-> IF k = 0 THEN <<>>
                  ELSE <<LogEntry("ERROR", "Error parseando estadisticas de jugadores", 0, event_id)>>]

\* process_xml_file of the ETL pipeline (lines 128-158): only sport_event is
\* required; there is no event record
ETL_process_xml_file(xml_path, doc, raise_team, raise_player) ==
    LET parsed == ET_parse(doc)
    IN IF parsed.raised
       THEN NothingExtracted(<<LogEntry("ERROR", "Error parseando XML", xml_path, "")>>)
       ELSE LET sport_event == find(parsed.root.sport_event)
            IN IF IsNone(sport_event)
               THEN NothingExtracted(<<LogEntry("WARNING", "No se encontro sport_event", xml_path, "")>>)
               ELSE LET event_id     == get(sport_event[1], "id")
                        team_stats   == ETL_parse_team_statistics(parsed.root, event_id, raise_team)
                        player_stats == ETL_parse_player_statistics(parsed.root, event_id, raise_player)
                    IN [event_info   |-> Absent,
                        team_stats   |-> team_stats.value,
                        player_stats |-> player_stats.value,
                        log          |-> team_stats.log \o player_stats.log,
                        raised       |-> FALSE]

\* ------------------------------------------------------------ table cells
Str(s)  == [str |-> s]
Num(n)  == [num |-> n]
Bool(b) == [bool |-> b]
Timestamp(s) == [ts |-> s]
\* NaN / NaT / None in a column
Null == [null |-> TRUE]

\* the strings of the universe that float() accepts, with their values
NumericValue ==
    [s \in {"0", "1", "2", "4", "9", "12", "55", "70000", "81044"} |->
        CASE s = "0" -> 0 [] s = "1" -> 1 [] s = "2" -> 2 [] s = "4" -> 4 [] s = "9" -> 9
          [] s = "12" -> 12 [] s = "55" -> 55 [] s = "70000" -> 70000 [] s = "81044" -> 81044]

\* the strings of the universe that pandas parses as a timestamp
ValidTimestamps == {"2024-08-17T19:00:00+00:00", "2024-08-18T17:00:00+00:00"}

\* a table whose columns are the keys of the first record only
DataFrame_first_keys(records) ==
    LET columns == IF records = <<>> THEN {} ELSE DOMAIN records[1]
    IN [columns |-> columns,
        rows    |-> [i \in DOMAIN records |->
                       [c \in columns |->
                          IF c \in DOMAIN records[i] /\ records[i][c] # None
                          THEN Str(records[i][c]) ELSE Null]]]

\* pd.DataFrame(records): one column per key seen in any record, one row per
\* record in order, null where the record has no such key or holds None
DataFrame(records) ==
    LET columns == UNION {DOMAIN records[i] : i \in DOMAIN records}
    IN [columns |-> columns,
        rows    |-> [i \in DOMAIN records |->
                       [c \in columns |->
                          IF c \in DOMAIN records[i] /\ records[i][c] # None
                          THEN Str(records[i][c]) ELSE Null]]]

\* to_numeric that fills what it cannot parse with 0
to_numeric_zero(cell) ==
    IF DOMAIN cell = {"str"} /\ cell.str \in DOMAIN NumericValue
    THEN Num(NumericValue[cell.str])
    ELSE IF DOMAIN cell = {"num"} THEN cell ELSE Num(0)

\* pd.to_numeric(cell, errors='coerce')
to_numeric(cell) ==
    IF DOMAIN cell = {"str"} /\ cell.str \in DOMAIN NumericValue
    THEN Num(NumericValue[cell.str])
    ELSE IF DOMAIN cell = {"num"} THEN cell ELSE Null

\* pd.to_datetime(column) with the default errors='raise'
to_datetime_raises(df, col) ==
    \E i \in DOMAIN df.rows :
        DOMAIN df.rows[i][col] = {"str"} /\ df.rows[i][col].str \notin ValidTimestamps

to_datetime(cell) == IF DOMAIN cell = {"str"} THEN Timestamp(cell.str) ELSE Null

\* a general truthy parse instead of the comparison with 'true'
is_true_truthy(cell) == Bool(cell \in {Str("true"), Str("True"), Str("1")})

\* df['starter'] == 'true'
is_true(cell) == Bool(cell = Str("true"))

\* the conversion a statement df[col] = ...(df[col]) applies to a cell
Coerce(conversion, cell) ==
    CASE conversion = "to_numeric" -> to_numeric(cell)
      [] conversion = "to_datetime" -> to_datetime(cell)
      [] conversion = "is_true" -> is_true(cell)

\* MapColumns converting every column, whatever cols says
MapColumns_all(df, cols, conversion) ==
    [df EXCEPT !.rows = [i \in DOMAIN df.rows |->
                           [c \in df.columns |-> Coerce(conversion, df.rows[i][c])]]]

\* df[col] = conversion(df[col]) for every col in cols
MapColumns(df, cols, conversion) ==
    [df EXCEPT !.rows = [i \in DOMAIN df.rows |->
                           [c \in df.columns |->
                              IF c \in cols THEN Coerce(conversion, df.rows[i][c])
                              ELSE df.rows[i][c]]]]

EventNumericColumns ==
    {"home_score", "away_score", "attendance", "venue_capacity", "round_number"}
TeamNonNumeric == {"event_id", "team_id", "team_name", "team_qualifier"}
PlayerNonNumeric ==
    {"event_id", "team_id", "team_name", "team_qualifier", "player_id", "player_name", "starter"}
ETL_TeamNonNumeric ==
    {"event_id", "team_id", "team_name", "team_qualifier", "event_status", "match_status"}

\* create_dataframes, lines 302-311
TeamTable(teams_data) ==
    LET df == DataFrame(teams_data)
    IN MapColumns(df, df.columns \ TeamNonNumeric, "to_numeric")

\* create_dataframes, lines 314-329
PlayerTable(players_data) ==
    LET df == DataFrame(players_data)
    IN MapColumns(MapColumns(df, df.columns \ PlayerNonNumeric, "to_numeric"), {"starter"}, "is_true")

\* create_dataframes, lines 287-299 (without the raising to_datetime case)
EventTable(events_data) ==
    LET df == DataFrame(events_data)
    IN MapColumns(MapColumns(df, {"start_time"}, "to_datetime"), EventNumericColumns, "to_numeric")

\* create_dataframes that builds a table for every kind, also an empty one
create_dataframes_every_kind(events, teams, players) ==
    IF events # <<>> /\ to_datetime_raises(DataFrame(events), "start_time")
    THEN [raised |-> TRUE, value |-> EmptyDict]
    ELSE [raised |-> FALSE,
          value  |-> [name \in {"events", "team_statistics", "player_statistics"} |->
                        CASE name = "events" -> EventTable(events)
                          [] name = "team_statistics" -> TeamTable(teams)
                          [] name = "player_statistics" -> PlayerTable(players)]]

\* create_dataframes(events_data, teams_data, players_data): the dict of the
\* tables built, or the exception of pd.to_datetime
create_dataframes(events, teams, players) ==
    IF events # <<>> /\ to_datetime_raises(DataFrame(events), "start_time")
    THEN [raised |-> TRUE, value |-> EmptyDict]
    ELSE [raised |-> FALSE,
          value  |-> (IF events # <<>> THEN "events" :> EventTable(events) ELSE EmptyDict)
                     @@ (IF teams # <<>> THEN "team_statistics" :> TeamTable(teams) ELSE EmptyDict)
                     @@ (IF players # <<>> THEN "player_statistics" :> PlayerTable(players)
                         ELSE EmptyDict)]

\* create_team_statistics_dataframe of the ETL pipeline (lines 193-217)
create_team_statistics_dataframe(teams_data) ==
    IF teams_data = <<>> THEN DataFrame(<<>>)
    ELSE LET df == DataFrame(teams_data)
         IN MapColumns(df, df.columns \ ETL_TeamNonNumeric, "to_numeric")

\* create_player_statistics_dataframe of the ETL pipeline (lines 220-251)
create_player_statistics_dataframe(players_data) ==
    IF players_data = <<>> THEN DataFrame(<<>>)
    ELSE LET df == DataFrame(players_data)
             numeric == MapColumns(df, df.columns \ PlayerNonNumeric, "to_numeric")
         IN IF "starter" \in df.columns THEN MapColumns(numeric, {"starter"}, "is_true")
            ELSE numeric

\* ------------------------------------------------------------------ state
VARIABLES
    script,        \* which program runs: "crear_dataframes" or "ETL"
    n_files,       \* len(xml_files): the *.xml files of GAMES_FOLDER
    pc,            \* position of main()
    idx,           \* number of xml_files the loop of process_all_games has consumed
    files,         \* the content of the files read so far, in order
    results,       \* what process_xml_file returned for each of them
    events_data,   \* process_all_games: events_data
    teams_data,    \* process_all_games: teams_data / all_teams_data
    players_data,  \* process_all_games: players_data / all_players_data
    log,           \* the logger's warnings and errors
    dataframes,    \* main: dataframes
    saved          \* names of the tables save_dataframes has written

\* the state of src/ETL/extraccion_de_datos.py
VARIABLES
    max_retries,          \* download_xml: max_retries
    season_idx,           \* main: number of SEASONS the loop has consumed
    total_downloads,      \* main: total_downloads
    counts,               \* what process_season returned, season by season
    events,               \* process_season: events
    event_idx,            \* process_season: number of events the loop has consumed
    successful_downloads, \* process_season: successful_downloads
    attempted,            \* the event ids download_event_summary was called with, this season
    returned,             \* what these calls returned
    caller,               \* who called download_xml: "schedule" or "summary"
    attempt,              \* download_xml: attempt
    trace,                \* what the current call of download_xml did so far
    response,             \* response.text of the request that succeeded
    games                 \* the files of GAMES_FOLDER: file name -> content

pipeline_vars == <<n_files, idx, files, results, events_data, teams_data,
                   players_data, log, dataframes, saved>>

download_vars == <<max_retries, season_idx, total_downloads, counts, events, event_idx,
                   successful_downloads, attempted, returned, caller, attempt, trace,
                   response, games>>

vars == <<script, pc, pipeline_vars, download_vars>>

Scripts == {"crear_dataframes", "ETL"}

\* the iterations in which an exception is injected into a statistics parser
\* (0: none); explored for one-file folders
RaisePoints == IF n_files = 1 THEN 0..MaxRaise ELSE {0}

\* the file contents explored: every document for a one-file folder, the
\* corpus documents for larger folders
Docs == IF n_files = 1 THEN DocUniverse ELSE CorpusDocs

Init ==
    /\ script \in Scripts
    /\ n_files \in 0..MaxFiles
    /\ pc = "start"
    /\ idx = 0
    /\ files = <<>>
    /\ results = <<>>
    /\ events_data = <<>>
    /\ teams_data = <<>>
    /\ players_data = <<>>
    /\ log = <<>>
    /\ dataframes = EmptyDict
    /\ saved = {}
    /\ max_retries = 1
    /\ season_idx = 0
    /\ total_downloads = 0
    /\ counts = <<>>
    /\ events = <<>>
    /\ event_idx = 0
    /\ successful_downloads = 0
    /\ attempted = <<>>
    /\ returned = <<>>
    /\ caller = ""
    /\ attempt = 0
    /\ trace = <<>>
    /\ response = <<>>
    /\ games = EmptyDict

\* process_all_games, lines 245-255 (ETL: 168-177): list the folder
GlobFiles ==
    /\ pc = "start"
    /\ IF n_files = 0
       THEN /\ pc' = "returned"
            /\ log' = Append(log, LogEntry("WARNING", "No se encontraron archivos XML", 0, ""))
       ELSE /\ pc' = "loop"
            /\ log' = log
    /\ UNCHANGED <<script, n_files, idx, files, results, events_data, teams_data,
                   players_data, dataframes, saved>>
    /\ UNCHANGED download_vars

\* process_all_games, lines 258-264: one iteration of the loop
ProcessFile ==
    /\ script = "crear_dataframes"
    /\ pc = "loop"
    /\ idx < n_files
    /\ \E doc \in Docs, raise_team \in RaisePoints, raise_player \in RaisePoints :
         LET r == process_xml_file(idx + 1, doc, raise_team, raise_player)
         IN /\ files' = Append(files, doc)
            /\ results' = Append(results, r)
            /\ log' = log \o r.log
            /\ IF r.raised
               THEN /\ pc' = "process_all_games_raised"
                    /\ UNCHANGED <<idx, events_data, teams_data, players_data>>
               ELSE /\ pc' = pc
                    /\ idx' = idx + 1
                    /\ IF ~IsNone(r.event_info)
                       THEN /\ events_data' = Append(events_data, r.event_info[1])
                            /\ teams_data' = extend(teams_data, r.team_stats)
                            /\ players_data' = extend(players_data, r.player_stats)
                       ELSE UNCHANGED <<events_data, teams_data, players_data>>
    /\ UNCHANGED <<script, n_files, dataframes, saved>>
    /\ UNCHANGED download_vars

\* ETL process_all_games, lines 180-183: one iteration of the loop
ETL_ProcessFile ==
    /\ script = "ETL"
    /\ pc = "loop"
    /\ idx < n_files
    /\ \E doc \in Docs, raise_team \in RaisePoints, raise_player \in RaisePoints :
         LET r == ETL_process_xml_file(idx + 1, doc, raise_team, raise_player)
         IN /\ files' = Append(files, doc)
            /\ results' = Append(results, r)
            /\ log' = log \o r.log
            /\ IF r.raised
               THEN /\ pc' = "process_all_games_raised"
                    /\ UNCHANGED <<idx, teams_data, players_data>>
               ELSE /\ pc' = pc
                    /\ idx' = idx + 1
                    /\ teams_data' = extend(teams_data, r.team_stats)
                    /\ players_data' = extend(players_data, r.player_stats)
    /\ UNCHANGED <<script, n_files, events_data, dataframes, saved>>
    /\ UNCHANGED download_vars

\* process_all_games, lines 266-271 (ETL: 185-190): the loop is over
ReturnData ==
    /\ pc = "loop"
    /\ idx = n_files
    /\ pc' = "returned"
    /\ UNCHANGED <<script, n_files, idx, files, results, events_data, teams_data,
                   players_data, log, dataframes, saved>>
    /\ UNCHANGED download_vars

\* main, lines 413-418: nothing extracted, or create_dataframes
MainCreate ==
    /\ script = "crear_dataframes"
    /\ pc = "returned"
    /\ IF events_data = <<>>
       THEN /\ pc' = "done"
            /\ log' = Append(log, LogEntry("ERROR", "No se pudieron extraer datos", 0, ""))
            /\ UNCHANGED dataframes
       ELSE LET r == create_dataframes(events_data, teams_data, players_data)
            IN /\ pc' = IF r.raised THEN "create_dataframes_raised" ELSE "created"
               /\ dataframes' = r.value
               /\ UNCHANGED log
    /\ UNCHANGED <<script, n_files, idx, files, results, events_data, teams_data,
                   players_data, saved>>
    /\ UNCHANGED download_vars

\* ETL main, lines 319-333
ETL_MainCreate ==
    /\ script = "ETL"
    /\ pc = "returned"
    /\ IF teams_data = <<>> /\ players_data = <<>>
       THEN /\ pc' = "done"
            /\ log' = Append(log, LogEntry("ERROR", "No se pudieron extraer datos", 0, ""))
            /\ UNCHANGED dataframes
       ELSE /\ pc' = "created"
            /\ dataframes' =
                 (IF teams_data # <<>>
                  THEN "team_statistics" :> create_team_statistics_dataframe(teams_data)
                  ELSE EmptyDict)
                 @@ (IF players_data # <<>>
                     THEN "player_statistics" :> create_player_statistics_dataframe(players_data)
                     ELSE EmptyDict)
            /\ UNCHANGED log
    /\ UNCHANGED <<script, n_files, idx, files, results, events_data, teams_data,
                   players_data, saved>>
    /\ UNCHANGED download_vars

\* save_dataframes (ETL: tables without rows are not written), then main ends
SaveDataframes ==
    /\ pc = "created"
    /\ saved' = {name \in DOMAIN dataframes :
                   script = "ETL" => dataframes[name].rows # <<>>}
    /\ pc' = "done"
    /\ UNCHANGED <<script, n_files, idx, files, results, events_data, teams_data,
                   players_data, log, dataframes>>
    /\ UNCHANGED download_vars

Next ==
    \/ GlobFiles
    \/ ProcessFile
    \/ ETL_ProcessFile
    \/ ReturnData
    \/ MainCreate
    \/ ETL_MainCreate
    \/ SaveDataframes

Spec == Init /\ [][Next]_vars

\* ------------------------------------------ src/ETL/extraccion_de_datos.py
\* The logger calls and the pauses of process_season between two events
\* leave no trace in the state; the pauses of download_xml are in trace.
SEASONS == <<"sr:season:106501", "sr:season:118691", "sr:season:130805">>

\* sport_event nodes of a schedule
ScheduledEvent1  == [attrib |-> [id |-> "sr:sport_event:1"], competitors |-> <<HomeComp, AwayComp>>]
ScheduledEvent2  == [attrib |-> [id |-> "sr:sport_event:2"], competitors |-> <<OddComp, HomeComp2>>]
ScheduledNoId    == [attrib |-> EmptyDict, competitors |-> <<>>]

\* schedule nodes: with or without a sport_event descendant
ScheduleNodes ==
    { [sport_event |-> <<>>], [sport_event |-> <<ScheduledEvent1>>],
      [sport_event |-> <<ScheduledEvent2>>], [sport_event |-> <<ScheduledNoId>>] }

\* a text that ET.fromstring rejects; also the empty string
MalformedText == [wellformed |-> FALSE, schedules |-> <<>>]

\* what the schedules endpoint can answer
ScheduleTexts ==
    { MalformedText }
    \cup { [wellformed |-> TRUE, schedules |-> nodes] :
             nodes \in UNION { [1..n -> ScheduleNodes] : n \in 0..MaxEvents } }

\* what the summary endpoint can answer for an event
SummaryTexts(event_id) ==
    { [summary |-> event_id, status |-> st] : st \in {"live", "closed"} }

\* lines 120-128: the name of the last competitor with the qualifier
RECURSIVE ScheduleTeam(_, _)
ScheduleTeam(competitors, qualifier) ==
    IF competitors = <<>> THEN "Unknown"
    ELSE LET last == competitors[Len(competitors)]
         IN IF get(last, "qualifier") = qualifier
            THEN get(last, "name")
            ELSE ScheduleTeam(SubSeq(competitors, 1, Len(competitors) - 1), qualifier)

\* parse_events_from_schedule(xml_content): ET.ParseError gives the empty list
parse_events_from_schedule(xml_content) ==
    IF ~xml_content.wellformed THEN <<>>
    ELSE LET with_event == SelectSeq(xml_content.schedules, LAMBDA n : n.sport_event # <<>>)
         IN [i \in DOMAIN with_event |->
               LET sport_event == with_event[i].sport_event[1]
               IN [id   |-> get(sport_event, "id"),
                   home |-> ScheduleTeam(sport_event.competitors, "home"),
                   away |-> ScheduleTeam(sport_event.competitors, "away")]]

\* line 164: event_id.replace(':', '_') + '.xml'
FileName ==
    [event_id \in {"sr:sport_event:1", "sr:sport_event:2"} |->
        IF event_id = "sr:sport_event:1" THEN "sr_sport_event_1.xml" ELSE "sr_sport_event_2.xml"]

\* download_xml that retries after every failed attempt
OnRequestException_always_retry(attempt_, max_retries_) == "retry"

\* line 68: after a failed attempt, retry unless it was the last one
OnRequestException(attempt_, max_retries_) ==
    IF attempt_ < max_retries_ - 1 THEN "retry" ELSE "raise"

DownloadInit ==
    /\ script = "extraccion_de_datos"
    /\ pc = "main"
    /\ n_files = 0
    /\ idx = 0
    /\ files = <<>>
    /\ results = <<>>
    /\ events_data = <<>>
    /\ teams_data = <<>>
    /\ players_data = <<>>
    /\ log = <<>>
    /\ dataframes = EmptyDict
    /\ saved = {}
    /\ max_retries \in 1..MaxRetries
    /\ season_idx = 0
    /\ total_downloads = 0
    /\ counts = <<>>
    /\ events = <<>>
    /\ event_idx = 0
    /\ successful_downloads = 0
    /\ attempted = <<>>
    /\ returned = <<>>
    /\ caller = ""
    /\ attempt = 0
    /\ trace = <<>>
    /\ response = <<>>
    /\ games = EmptyDict

\* main, lines 236-237, process_season, lines 194-195: the next season's
\* schedule is requested
StartSeason ==
    /\ pc = "main"
    /\ season_idx < Len(SEASONS)
    /\ pc' = "download_xml"
    /\ caller' = "schedule"
    /\ attempt' = 0
    /\ trace' = <<>>
    /\ response' = <<>>
    /\ events' = <<>>
    /\ event_idx' = 0
    /\ successful_downloads' = 0
    /\ attempted' = <<>>
    /\ returned' = <<>>
    /\ UNCHANGED <<script, pipeline_vars, max_retries, season_idx, total_downloads, counts, games>>

\* download_xml, lines 62-75: one iteration of the loop over the attempts;
\* the request succeeds or raises RequestException
Request ==
    /\ pc = "download_xml"
    /\ attempt < max_retries
    /\ \E ok \in BOOLEAN :
         \E text \in (IF caller = "schedule" THEN ScheduleTexts
                       ELSE SummaryTexts(attempted[Len(attempted)])) :
            IF ok
            THEN /\ response' = <<text>>
                 /\ trace' = trace \o <<"request_ok", "return">>
                 /\ pc' = caller \o "_downloaded"
                 /\ UNCHANGED attempt
            ELSE IF OnRequestException(attempt, max_retries) = "retry"
                 THEN /\ attempt' = attempt + 1
                      /\ IF attempt + 1 < max_retries
                         THEN /\ trace' = trace \o <<"request_failed", "sleep">>
                              /\ UNCHANGED <<pc, response>>
                         ELSE /\ trace' = trace \o <<"request_failed", "sleep", "return">>
                              /\ response' = <<MalformedText>>
                              /\ pc' = caller \o "_downloaded"
                 ELSE /\ trace' = trace \o <<"request_failed", "raise">>
                      /\ pc' = caller \o "_failed"
                      /\ UNCHANGED <<attempt, response>>
    /\ UNCHANGED <<script, pipeline_vars, max_retries, season_idx, total_downloads, counts,
                   events, event_idx, successful_downloads, attempted, returned, caller, games>>

\* process_season returns n to main (line 238)
ReturnCount(n) ==
    /\ counts' = Append(counts, n)
    /\ total_downloads' = total_downloads + n
    /\ season_idx' = season_idx + 1
    /\ pc' = "main"

\* process_season, lines 196-198: no schedule, the season is skipped
ScheduleFailed ==
    /\ pc = "schedule_failed"
    /\ ReturnCount(0)
    /\ UNCHANGED <<script, pipeline_vars, max_retries, events, event_idx, successful_downloads,
                   attempted, returned, caller, attempt, trace, response, games>>

\* process_season, lines 201-208
ParseSchedule ==
    /\ pc = "schedule_downloaded"
    /\ events' = parse_events_from_schedule(response[1])
    /\ IF events' = <<>>
       THEN ReturnCount(0)
       ELSE /\ pc' = "event_loop"
            /\ UNCHANGED <<counts, total_downloads, season_idx>>
    /\ UNCHANGED <<script, pipeline_vars, max_retries, event_idx, successful_downloads,
                   attempted, returned, caller, attempt, trace, response, games>>

\* process_season, lines 210-213, download_event_summary, lines 156-161: the
\* next event's summary is requested
DownloadEventSummary ==
    /\ pc = "event_loop"
    /\ event_idx < Len(events)
    /\ attempted' = Append(attempted, events[event_idx + 1].id)
    /\ caller' = "summary"
    /\ attempt' = 0
    /\ trace' = <<>>
    /\ response' = <<>>
    /\ pc' = "download_xml"
    /\ UNCHANGED <<script, pipeline_vars, max_retries, season_idx, total_downloads, counts,
                   events, event_idx, successful_downloads, returned, games>>

\* download_event_summary, lines 164-172, then process_season, lines 213-218.
\* event_id.replace on an id that is None raises AttributeError and open()
\* can raise OSError; the except clause names RequestException only.
SaveSummary ==
    /\ pc = "summary_downloaded"
    /\ LET event_id == attempted[Len(attempted)]
       IN IF event_id = None
          THEN /\ pc' = "download_event_summary_raised"
               /\ UNCHANGED <<games, returned, successful_downloads, event_idx>>
          ELSE \E opened \in BOOLEAN :
                  IF opened
                  THEN /\ games' = (FileName[event_id] :> response[1]) @@ games
                       /\ returned' = Append(returned, TRUE)
                       /\ successful_downloads' = successful_downloads + 1
                       /\ event_idx' = event_idx + 1
                       /\ pc' = "event_loop"
                  ELSE /\ pc' = "download_event_summary_raised"
                       /\ UNCHANGED <<games, returned, successful_downloads, event_idx>>
    /\ UNCHANGED <<script, pipeline_vars, max_retries, season_idx, total_downloads, counts,
                   events, attempted, caller, attempt, trace, response>>

\* download_event_summary, lines 174-176, then process_season, lines 213-218
SummaryFailed ==
    /\ pc = "summary_failed"
    /\ returned' = Append(returned, FALSE)
    /\ event_idx' = event_idx + 1
    /\ pc' = "event_loop"
    /\ UNCHANGED <<script, pipeline_vars, max_retries, season_idx, total_downloads, counts,
                   events, successful_downloads, attempted, caller, attempt, trace, response,
                   games>>

\* process_season, lines 220-221: the loop over the events is over
EndSeason ==
    /\ pc = "event_loop"
    /\ event_idx = Len(events)
    /\ ReturnCount(successful_downloads)
    /\ UNCHANGED <<script, pipeline_vars, max_retries, events, event_idx, successful_downloads,
                   attempted, returned, caller, attempt, trace, response, games>>

\* main, lines 240-248
Finish ==
    /\ pc = "main"
    /\ season_idx = Len(SEASONS)
    /\ pc' = "finished"
    /\ UNCHANGED <<script, pipeline_vars, download_vars>>

DownloadNext ==
    \/ StartSeason
    \/ Request
    \/ ScheduleFailed
    \/ ParseSchedule
    \/ DownloadEventSummary
    \/ SaveSummary
    \/ SummaryFailed
    \/ EndSeason
    \/ Finish

DownloadSpec == DownloadInit /\ [][DownloadNext]_vars

\* ================================================================ claims
\* the files read so far
Read == DOMAIN files

HasEventAndStatus(doc) ==
    doc.wellformed /\ doc.sport_event # <<>> /\ doc.sport_event_status # <<>>

Skipped(i) == IsNone(results[i].event_info)

Contribution(i, field) == IF files[i].wellformed THEN results[i][field] ELSE <<>>

C2_EventRecordForUsableDocument ==
    script = "crear_dataframes" =>
        \A i \in Read :
            HasEventAndStatus(files[i]) =>
                /\ ~IsNone(results[i].event_info)
                /\ results[i].event_info[1].event_id = get(files[i].sport_event[1], "id")

NoRecords(i) ==
    /\ IsNone(results[i].event_info)
    /\ results[i].team_stats = <<>>
    /\ results[i].player_stats = <<>>

LacksEventOrStatus(doc) ==
    doc.wellformed /\ (doc.sport_event = <<>> \/ doc.sport_event_status = <<>>)

NoParserError(i) == \A k \in DOMAIN results[i].log : results[i].log[k].level # "ERROR"

C4_FailureReportListsSkipped ==
    (script = "crear_dataframes" /\ pc = "returned") =>
        /\ \A i \in Read : Skipped(i) => \E k \in DOMAIN log : log[k].file = i
        /\ \A k \in DOMAIN log : log[k].file # 0 => Skipped(log[k].file)

\* event record fields read from a sub-node of the context node
ContextFields ==
    { <<"sport_name", "sport", "name">>, <<"category_name", "category", "name">>,
      <<"competition_name", "competition", "name">>, <<"competition_id", "competition", "id">>,
      <<"season_name", "season", "name">>, <<"season_id", "season", "id">>,
      <<"round_number", "round", "number">> }

VenueFields ==
    { <<"venue_name", "name">>, <<"venue_city", "city_name">>, <<"venue_capacity", "capacity">> }

StatusFields == {"status", "match_status", "home_score", "away_score"}

\* the event record r holds null for every missing optional node of the
\* sport_event se and the document's values everywhere else
OptionalNodesAsNulls(r, se, st) ==
    /\ r.event_id = get(se, "id")
    /\ r.start_time = get(se, "start_time")
    /\ \A f \in StatusFields : r[f] = get(st, f)
    /\ \A f \in ContextFields :
          r[f[1]] = IF se.sport_event_context = <<>> THEN None
                    ELSE getOpt(find(se.sport_event_context[1][f[2]]), f[3])
    /\ \A f \in VenueFields : r[f[1]] = getOpt(find(se.venue), f[2])
    /\ r.attendance =
          IF se.sport_event_conditions = <<>> THEN None
          ELSE getOpt(find(se.sport_event_conditions[1].attendance), "count")

\* C5: when the event and status nodes are present, a missing optional node
\* (context, one of its sub-nodes, venue, conditions, attendance) does not
\* fail parse_event_info: an event record is returned, with null in the fields
\* of each missing node and the document's values in all other fields.
C5_OptionalNodesYieldNulls ==
    script = "crear_dataframes" =>
        \A i \in Read :
            HasEventAndStatus(files[i]) =>
                /\ ~IsNone(results[i].event_info)
                /\ OptionalNodesAsNulls(results[i].event_info[1], files[i].sport_event[1],
                                        files[i].sport_event_status[1])

Logged(i, msg) == \E k \in DOMAIN results[i].log : results[i].log[k].msg = msg

\* C6: when an exception occurs inside parse_team_statistics or
\* parse_player_statistics, also after some records were built, the function
\* returns an empty list for that document.
C6_ExceptionYieldsEmptyList ==
    \A i \in Read :
        /\ Logged(i, "Error parseando estadisticas de equipos") => results[i].team_stats = <<>>
        /\ Logged(i, "Error parseando estadisticas de jugadores")
              => results[i].player_stats = <<>>

\* the team records of file i stem from its first competitors, in order
TeamRecordsOf(i) == DOMAIN results[i].team_stats

Qualifiers == {"home", "away"}

\* C7 as stated: every accumulated team record has team_qualifier 'home' or
\* 'away', and a document with exactly two competitors gives one of each.
C7_QualifierIsHomeOrAway ==
    /\ \A k \in DOMAIN teams_data : teams_data[k].team_qualifier \in Qualifiers
    /\ \A i \in Read :
          (Len(files[i].totals) = 2 /\ Len(results[i].team_stats) = 2)
            => {results[i].team_stats[k].team_qualifier : k \in 1..2} = Qualifiers

OwnAttribs(comp) == StatisticsAttrib(CompetitorStatistics(comp))

\* C7 amended: a team record carries the qualifier attribute of its competitor
\* node (null when it is missing) unless the competitor's statistics carry an
\* attribute named team_qualifier; so a document with exactly two competitors
\* qualified 'home' and 'away', without such an attribute, gives one 'home'
\* and one 'away' record.
C7_QualifierIsCompetitorAttribute ==
    \A i \in Read :
        /\ \A k \in TeamRecordsOf(i) :
              "team_qualifier" \notin DOMAIN OwnAttribs(files[i].totals[k])
                => results[i].team_stats[k].team_qualifier = get(files[i].totals[k], "qualifier")
        /\ ( /\ Len(files[i].totals) = 2
             /\ Len(results[i].team_stats) = 2
             /\ {get(files[i].totals[k], "qualifier") : k \in 1..2} = Qualifiers
             /\ \A k \in 1..2 : "team_qualifier" \notin DOMAIN OwnAttribs(files[i].totals[k]) )
           => {results[i].team_stats[k].team_qualifier : k \in 1..2} = Qualifiers

C7_Witness ==
    \E k \in DOMAIN teams_data :
        /\ teams_data[k].team_qualifier = None
        /\ \E j \in DOMAIN teams_data : teams_data[j].team_qualifier = "home"

\* C8: in the ETL pipeline the score of a team record is the event-level
\* home_score for a 'home' competitor and away_score for an 'away' competitor,
\* never a value of the competitor's own block.
C8_ScoreFromEventStatus ==
    script = "ETL" =>
        \A i \in Read : \A k \in TeamRecordsOf(i) :
            LET qualifier == get(files[i].totals[k], "qualifier")
                status    == find(files[i].sport_event_status)
                record    == results[i].team_stats[k]
            IN /\ qualifier = "home" => record.score = getOpt(status, "home_score")
               /\ qualifier = "away" => record.score = getOpt(status, "away_score")

\* the (competitor, player) pairs of a document in document order
PlayersOf(doc) ==
    Concat([c \in DOMAIN doc.totals |->
              [p \in DOMAIN doc.totals[c].players |-> <<doc.totals[c], doc.totals[c].players[p]>>]])

Carries(record, attrib) ==
    \A key \in DOMAIN attrib : key \in DOMAIN record /\ record[key] = attrib[key]

\* C9: every attribute of a competitor's (player's) own statistics node is in
\* the team (player) record under the same key with the same string value.
C9_StatisticsPassthrough ==
    \A i \in Read :
        /\ \A k \in TeamRecordsOf(i) :
              files[i].totals[k].statistics # <<>>
                => Carries(results[i].team_stats[k], files[i].totals[k].statistics[1].attrib)
        /\ \A k \in DOMAIN results[i].player_stats :
              LET player == PlayersOf(files[i])[k][2]
              IN player.statistics # <<>>
                   => Carries(results[i].player_stats[k], player.statistics[1].attrib)

C9_Witness ==
    /\ \E k \in DOMAIN teams_data :
          teams_data[k].team_qualifier = "guest" /\ teams_data[k].corner_kicks = "4"
    /\ \E k \in DOMAIN players_data :
          "yellow_cards" \in DOMAIN players_data[k] /\ players_data[k].yellow_cards = "1"

\* the record sequence each table of dataframes was built from
TableInput(name) ==
    CASE name = "events" -> events_data
      [] name = "team_statistics" -> teams_data
      [] name = "player_statistics" -> players_data

\* C10: the columns of a table are the union of the keys of all its input
\* records, and a record lacking a key has null in that column.
C10_ColumnsAreUnionOfKeys ==
    \A name \in DOMAIN dataframes :
        LET records == TableInput(name)
            table   == dataframes[name]
        IN /\ table.columns = UNION {DOMAIN records[i] : i \in DOMAIN records}
           /\ Len(table.rows) = Len(records)
           /\ \A i \in DOMAIN records :
                 /\ DOMAIN table.rows[i] = table.columns
                 /\ \A c \in table.columns \ DOMAIN records[i] : table.rows[i][c] = Null

C10_Witness ==
    /\ "team_statistics" \in DOMAIN dataframes
    /\ Len(teams_data) = 2
    /\ DOMAIN teams_data[2] \ DOMAIN teams_data[1] # {}
    /\ \E c \in dataframes["team_statistics"].columns \ DOMAIN teams_data[1] :
          dataframes["team_statistics"].rows[1][c] = Null

\* the statistics tables that have been built
StatTables == {"team_statistics", "player_statistics"} \cap DOMAIN dataframes

\* the non-numeric column list the code gives for a table
NonNumeric(name) ==
    IF name = "player_statistics" THEN PlayerNonNumeric
    ELSE IF script = "ETL" THEN ETL_TeamNonNumeric ELSE TeamNonNumeric

HasValue(record, c) == c \in DOMAIN record /\ record[c] # None

RawCell(record, c) == IF HasValue(record, c) THEN Str(record[c]) ELSE Null

NumericCell(record, c) ==
    IF HasValue(record, c) /\ record[c] \in DOMAIN NumericValue
    THEN Num(NumericValue[record[c]]) ELSE Null

\* C11 as stated: in the team and player tables a cell of a column outside the
\* non-numeric list is the number its string denotes, or null when the string
\* is not numeric or absent; a cell of a listed column is the raw string.
C11_CoercionByAllowlist ==
    \A name \in StatTables :
        \A i \in DOMAIN TableInput(name) : \A c \in dataframes[name].columns :
            dataframes[name].rows[i][c] =
                IF c \in NonNumeric(name) THEN RawCell(TableInput(name)[i], c)
                ELSE NumericCell(TableInput(name)[i], c)

\* C11 amended: as stated, except that the listed column starter of the player
\* table holds a boolean instead of its raw string; and the numeric coercion
\* never aborts: table construction fails only on an unparsable start_time.
C11_CoercionByAllowlistButStarter ==
    /\ \A name \in StatTables :
          \A i \in DOMAIN TableInput(name) : \A c \in dataframes[name].columns :
              ~(name = "player_statistics" /\ c = "starter") =>
                  dataframes[name].rows[i][c] =
                      IF c \in NonNumeric(name) THEN RawCell(TableInput(name)[i], c)
                      ELSE NumericCell(TableInput(name)[i], c)
    /\ pc = "create_dataframes_raised" =>
          \E k \in DOMAIN events_data :
              events_data[k].start_time \notin ValidTimestamps \cup {None}
    /\ (pc \in {"created", "done"} /\ dataframes # EmptyDict) =>
          \A name \in {"team_statistics", "player_statistics"} :
              TableInput(name) # <<>> => name \in DOMAIN dataframes

C11_Witness ==
    /\ StatTables = {"team_statistics", "player_statistics"}
    /\ \E i \in DOMAIN teams_data :
          /\ HasValue(teams_data[i], "shots_total")
          /\ teams_data[i].shots_total = "n/a"
          /\ dataframes["team_statistics"].rows[i]["shots_total"] = Null
    /\ \E i \in DOMAIN teams_data :
          dataframes["team_statistics"].rows[i]["shots_total"] = Num(12)
    /\ \E i \in DOMAIN players_data :
          dataframes["player_statistics"].rows[i]["player_name"] = Str("Uno")

\* C12: an event record whose start_time is missing or not a valid timestamp
\* gets a null start_time cell, and the tables are built without raising.
C12_InvalidStartTimeBecomesNull ==
    script = "crear_dataframes" =>
        /\ pc # "create_dataframes_raised"
        /\ "events" \in DOMAIN dataframes =>
              \A i \in DOMAIN events_data :
                  events_data[i].start_time \notin ValidTimestamps
                    => dataframes["events"].rows[i]["start_time"] = Null

\* C13: in the player table starter is true exactly for the rows whose raw
\* value is the string "true", false for every other raw value or a missing
\* attribute, and never null.
C13_StarterIsLiteralTrue ==
    "player_statistics" \in DOMAIN dataframes =>
        \A i \in DOMAIN players_data :
            dataframes["player_statistics"].rows[i]["starter"]
                = Bool(players_data[i].starter = "true")

StarterOf(raw, value) ==
    \E i \in DOMAIN players_data :
        /\ players_data[i].starter = raw
        /\ dataframes["player_statistics"].rows[i]["starter"] = Bool(value)

C13_Witness ==
    /\ "player_statistics" \in DOMAIN dataframes
    /\ StarterOf("true", TRUE)
    /\ StarterOf("1", FALSE)
    /\ StarterOf("True", FALSE)
    /\ StarterOf("", FALSE)

\* C14: each accumulated sequence holds the records of the documents in the
\* order the documents were processed, and within one document the team and
\* player records follow the document order of their competitor and player
\* nodes.
C14_InputOrderPreserved ==
    /\ script = "crear_dataframes" =>
          events_data = Concat([i \in Read |-> results[i].event_info])
    /\ teams_data = Concat([i \in Read |-> results[i].team_stats])
    /\ players_data = Concat([i \in Read |-> results[i].player_stats])
    /\ \A i \in Read :
          /\ \A k \in TeamRecordsOf(i) :
                results[i].team_stats[k].team_id = get(files[i].totals[k], "id")
          /\ \A k \in DOMAIN results[i].player_stats :
                results[i].player_stats[k].player_id = get(PlayersOf(files[i])[k][2], "id")

C14_Witness ==
    /\ pc = "returned"
    /\ Len(files) = 3
    /\ Len(events_data) = 2
    /\ events_data[1].event_id # events_data[2].event_id
    /\ Len(teams_data) = 4
    /\ teams_data[2].event_id = events_data[1].event_id
    /\ teams_data[3].event_id = events_data[2].event_id
    /\ teams_data[1].team_id # teams_data[2].team_id
    /\ Len(players_data) > 1

IdentifierFields == {"event_id", "team_id", "team_name", "player_id", "player_name"}

\* C15: row i of a table is record i: its identifier and name fields are the
\* record's raw values, and each statistic field is the number the record's
\* raw string denotes, or null when that string is not numeric.
C15_RowsReproduceRecords ==
    \A name \in DOMAIN dataframes :
        LET records == TableInput(name)
            table   == dataframes[name]
        IN /\ DOMAIN table.rows = DOMAIN records
           /\ \A i \in DOMAIN records :
                 /\ \A c \in IdentifierFields \cap DOMAIN records[i] :
                       table.rows[i][c] = RawCell(records[i], c)
                 /\ name # "events" =>
                       \A c \in DOMAIN records[i] \ NonNumeric(name) :
                           table.rows[i][c] = NumericCell(records[i], c)

C15_Witness ==
    /\ "player_statistics" \in DOMAIN dataframes
    /\ \E i, j \in DOMAIN players_data :
          /\ i < j
          /\ HasValue(players_data[i], "goals_scored")
          /\ HasValue(players_data[j], "goals_scored")
          /\ players_data[i].goals_scored = "1"
          /\ players_data[j].goals_scored = "x"
          /\ dataframes["player_statistics"].rows[i]["goals_scored"] = Num(1)
          /\ dataframes["player_statistics"].rows[j]["goals_scored"] = Null
          /\ dataframes["player_statistics"].rows[j]["player_id"] = Str(players_data[j].player_id)

TableKinds == {"events", "team_statistics", "player_statistics"}

\* C16 as stated: the builder returns a table for each of events, team
\* statistics and player statistics, with zero rows when its record sequence
\* is empty.
C16_EmptyInputGivesEmptyTable ==
    (script = "crear_dataframes" /\ pc = "created") =>
        \A name \in TableKinds :
            /\ name \in DOMAIN dataframes
            /\ Len(dataframes[name].rows) = Len(TableInput(name))

\* C16 amended: an empty record sequence is not an error.  The ETL builders
\* return a table without rows for it; create_dataframes of the event
\* pipeline leaves the table of an empty kind out of its result and builds
\* the tables of the other kinds.
C16_EmptyInputIsNotAnError ==
    /\ create_team_statistics_dataframe(<<>>).rows = <<>>
    /\ create_player_statistics_dataframe(<<>>).rows = <<>>
    /\ (script = "crear_dataframes" /\ pc \in {"created", "done"}) =>
          \A name \in TableKinds : name \in DOMAIN dataframes <=> TableInput(name) # <<>>

C16_Witness ==
    /\ script = "crear_dataframes"
    /\ pc = "created"
    /\ players_data = <<>>
    /\ teams_data # <<>>
    /\ DOMAIN dataframes = {"events", "team_statistics"}

\* C17: when the batch yields no event record main ends normally without
\* building or saving a table; when it yields at least one, the tables are
\* built and saved.
C17_NothingToPersistOrSaved ==
    script = "crear_dataframes" =>
        /\ pc \notin {"process_all_games_raised", "create_dataframes_raised"}
        /\ (pc = "done" /\ events_data = <<>>) => (dataframes = EmptyDict /\ saved = {})
        /\ (pc = "done" /\ events_data # <<>>) =>
              ("events" \in saved /\ saved = DOMAIN dataframes)

\* C19 as stated: every record of the accumulated events sequence has a
\* non-null event_id and no two records share an event_id.
C19_EventIdPresentAndUnique ==
    /\ \A k \in DOMAIN events_data : events_data[k].event_id # None
    /\ \A a, b \in DOMAIN events_data :
          a # b => events_data[a].event_id # events_data[b].event_id

\* the id attribute of the sport_event node of each document that contributed
\* an event record, in processing order
ContributedIds ==
    Concat([i \in Read |->
              IF Skipped(i) THEN <<>>
              ELSE LET sport_event == files[i].sport_event[1]
                   IN <<IF "id" \in DOMAIN sport_event.attrib
                        THEN sport_event.attrib["id"] ELSE None>>])

\* C19 amended: the event_id of an event record is the id attribute of its
\* document's sport_event node, null when the node has none, and the batch
\* removes no duplicate: two records share an event_id exactly when their
\* documents carry the same id.
C19_EventIdIsDocumentId ==
    script = "crear_dataframes" =>
        [k \in DOMAIN events_data |-> events_data[k].event_id] = ContributedIds

C19_Witness ==
    /\ script = "crear_dataframes"
    /\ pc = "returned"
    /\ Len(events_data) = 3
    /\ events_data[1].event_id = events_data[2].event_id
    /\ events_data[1] # events_data[2]
    /\ events_data[3].event_id # events_data[1].event_id

\* competitors of a sport_event carrying the given qualifier
Qualified(competitors, qualifier) ==
    { k \in DOMAIN competitors :
        /\ "qualifier" \in DOMAIN competitors[k].attrib
        /\ competitors[k].attrib["qualifier"] = qualifier }

SideFrom(event, side, competitors) ==
    LET name == event[side \o "_team"]
        id   == event[side \o "_team_id"]
    IN IF Qualified(competitors, side) = {}
       THEN name = None /\ id = None
       ELSE \E k \in Qualified(competitors, side) :
               /\ name = get(competitors[k], "name")
               /\ id = get(competitors[k], "id")

\* C20: the home (away) name and id of an event record come from one
\* competitor of the sport_event whose qualifier is "home" ("away"), and both
\* are null when no competitor has that qualifier.
C20_HomeAwayByQualifier ==
    script = "crear_dataframes" =>
        \A i \in Read :
            ~Skipped(i) =>
                \A side \in {"home", "away"} :
                    SideFrom(results[i].event_info[1], side, files[i].sport_event[1].competitors)

C20_Witness ==
    /\ script = "crear_dataframes"
    /\ pc = "returned"
    /\ Len(files) = 1
    /\ files[1].sport_event # <<>>
    /\ files[1].sport_event[1].competitors = <<OddComp, AwayComp>>
    /\ Len(events_data) = 1
    /\ events_data[1].home_team = None
    /\ events_data[1].home_team_id = None
    /\ events_data[1].away_team = "Away CF"
    /\ events_data[1].away_team_id = "sr:competitor:2"

\* the records of file i whose source is a player of its k-th competitor
PlayerRecordsFrom(i, k) ==
    { j \in DOMAIN results[i].player_stats : PlayersOf(files[i])[j][1] = files[i].totals[k] }

\* C21: for a document with a competitor that has no player node, the team
\* parser still emits that competitor's team record, the player parser emits
\* one record per player node of the document, hence none for that competitor
\* and all those of the other competitors, and neither parser raises.
C21_CompetitorWithoutPlayers ==
    script = "crear_dataframes" =>
        \A i \in Read :
            /\ ~results[i].raised
            /\ (~Skipped(i) /\ NoParserError(i)) =>
                  \A k \in DOMAIN files[i].totals :
                      files[i].totals[k].players = <<>> =>
                          /\ k \in DOMAIN results[i].team_stats
                          /\ results[i].team_stats[k].team_id = get(files[i].totals[k], "id")
                          /\ results[i].team_stats[k].team_name = get(files[i].totals[k], "name")
                          /\ Len(results[i].player_stats) = Len(PlayersOf(files[i]))
                          /\ \A j \in DOMAIN results[i].player_stats :
                                /\ PlayersOf(files[i])[j][1].players # <<>>
                                /\ results[i].player_stats[j].player_id
                                     = get(PlayersOf(files[i])[j][2], "id")

C21_Witness ==
    /\ script = "crear_dataframes"
    /\ Len(files) = 1
    /\ ~Skipped(1)
    /\ Len(files[1].totals) = 2
    /\ files[1].totals[1].players # <<>>
    /\ files[1].totals[2].players = <<>>
    /\ Len(results[1].team_stats) = 2
    /\ results[1].team_stats[2].team_id = get(files[1].totals[2], "id")
    /\ Len(results[1].player_stats) = Len(files[1].totals[1].players)

\* positions of the current download_xml call's trace holding a request
RequestsIn(t) == { k \in DOMAIN t : t[k] \in {"request_ok", "request_failed"} }

FailedIn(t) == { k \in DOMAIN t : t[k] = "request_failed" }

\* C22: a call of download_xml with max_retries >= 1 issues at most
\* max_retries requests, returns the body of the first request that succeeds
\* without a further request, waits between a failed attempt and the next
\* one, and raises exactly when all max_retries attempts failed, without a
\* wait after the last failure.
C22_BoundedRetries ==
    script = "extraccion_de_datos" =>
        /\ Cardinality(RequestsIn(trace)) <= max_retries
        /\ \A k \in DOMAIN trace :
              /\ trace[k] = "request_ok" =>
                    /\ k + 1 = Len(trace)
                    /\ trace[k + 1] = "return"
                    /\ response # <<>>
                    /\ response[1] \in (IF caller = "schedule" THEN ScheduleTexts
                                         ELSE SummaryTexts(attempted[Len(attempted)]))
              /\ (k \in RequestsIn(trace) /\ k > 1) => trace[k - 1] = "sleep"
              /\ trace[k] = "sleep" => (k > 1 /\ trace[k - 1] = "request_failed")
              /\ trace[k] = "sleep" =>
                    (k = Len(trace) \/ trace[k + 1] \in {"request_ok", "request_failed"})
              /\ trace[k] = "raise" =>
                    (k = Len(trace) /\ trace[k - 1] = "request_failed")
              /\ trace[k] = "return" => trace[k - 1] = "request_ok"
        /\ ("raise" \in {trace[k] : k \in DOMAIN trace})
              <=> Cardinality(FailedIn(trace)) = max_retries
        /\ pc \in {"schedule_failed", "summary_failed"}
              => (trace # <<>> /\ trace[Len(trace)] = "raise")
        /\ pc \in {"schedule_downloaded", "summary_downloaded"}
              => (trace # <<>> /\ trace[Len(trace)] = "return")

C22_Witness ==
    /\ script = "extraccion_de_datos"
    /\ max_retries = 3
    /\ caller = "summary"
    /\ trace = <<"request_failed", "sleep", "request_failed", "sleep", "request_ok", "return">>
    /\ pc = "summary_downloaded"
    /\ response # <<>>

Succeeded(r) == { k \in DOMAIN r : r[k] }

\* C23: download_event_summary never raises and returns a boolean: True
\* exactly when the summary was downloaded and written to the games folder,
\* False otherwise; a failed download creates or overwrites no file.
C23_AlwaysReturnsBoolean ==
    script = "extraccion_de_datos" =>
        /\ pc # "download_event_summary_raised"
        /\ returned \in Seq(BOOLEAN)
        /\ Len(attempted) - Len(returned) \in {0, 1}
        /\ \A k \in DOMAIN returned :
              returned[k] => /\ attempted[k] \in DOMAIN FileName
                             /\ FileName[attempted[k]] \in DOMAIN games
        /\ pc = "summary_failed" => Len(returned) = Len(attempted) - 1
        /\ \A event_id \in DOMAIN FileName :
              FileName[event_id] \in DOMAIN games
                => games[FileName[event_id]] \in SummaryTexts(event_id)

\* C24: process_season attempts every event of the schedule once, in schedule
\* order, also after a failed download; the count it returns is the number of
\* downloads that succeeded; without a schedule or without events it returns
\* 0 and attempts nothing; main goes through every season.
C24_EveryEventAttemptedOnce ==
    script = "extraccion_de_datos" =>
        /\ pc # "download_event_summary_raised"
        /\ Len(attempted) <= Len(events)
        /\ attempted = [k \in 1..Len(attempted) |-> events[k].id]
        /\ pc = "event_loop" => (Len(attempted) = event_idx /\ Len(returned) = event_idx)
        /\ successful_downloads = Cardinality(Succeeded(returned))
        /\ season_idx = Len(counts)
        /\ (pc = "main" /\ counts # <<>>) =>
              /\ Len(attempted) = Len(events)
              /\ counts[Len(counts)] = Cardinality(Succeeded(returned))
              /\ counts[Len(counts)] <= Len(events)
        /\ pc = "finished" => Len(counts) = Len(SEASONS)

\* C25: in the event pipeline, after any prefix of the folder, every team
\* record and every player record has the event_id of some record of the
\* events sequence, and the events sequence has at most one record per
\* processed document.
C25_ReferentialIntegrity ==
    script = "crear_dataframes" =>
        /\ \A k \in DOMAIN teams_data :
              \E e \in DOMAIN events_data : events_data[e].event_id = teams_data[k].event_id
        /\ \A k \in DOMAIN players_data :
              \E e \in DOMAIN events_data : events_data[e].event_id = players_data[k].event_id
        /\ Len(events_data) <= Len(files)

TeamKey == {"event_id", "team_id", "team_name", "team_qualifier"}

\* C26: every player record of a document has a team record of the same
\* document with the same event_id, team_id, team_name and team_qualifier.
C26_PlayerHasTeam ==
    script = "crear_dataframes" =>
        \A i \in Read :
            \A j \in DOMAIN results[i].player_stats :
                \E k \in DOMAIN results[i].team_stats :
                    \A f \in TeamKey :
                        results[i].team_stats[k][f] = results[i].player_stats[j][f]

\* the fixed fields of the record of competitor comp of file i, from the nodes
TeamFixed(i, comp) ==
    LET status    == find(files[i].sport_event_status)
        qualifier == IF "qualifier" \in DOMAIN comp.attrib THEN comp.attrib["qualifier"] ELSE None
        own       == [event_id       |-> get(files[i].sport_event[1], "id"),
                      team_id        |-> get(comp, "id"),
                      team_name      |-> get(comp, "name"),
                      team_qualifier |-> qualifier]
    IN IF script = "ETL"
       THEN own @@ [event_status |-> getOpt(status, "status"),
                    match_status |-> getOpt(status, "match_status"),
                    score        |-> getOpt(status, IF qualifier = "home" THEN "home_score"
                                                    ELSE "away_score")]
       ELSE own

PlayerFixed(i, comp, player) ==
    [f \in TeamKey |-> TeamFixed(i, comp)[f]]
    @@ [player_id   |-> get(player, "id"),
        player_name |-> get(player, "name"),
        starter     |-> get(player, "starter")]

\* C27: the fixed fields of a team or player record hold the values of the
\* event, competitor and player nodes, whatever attributes the statistics
\* node carries.
C27_FixedFieldsKeepNodeValues ==
    \A i \in Read :
        /\ \A k \in TeamRecordsOf(i) :
              Carries(results[i].team_stats[k], TeamFixed(i, files[i].totals[k]))
        /\ \A j \in DOMAIN results[i].player_stats :
              Carries(results[i].player_stats[j],
                      PlayerFixed(i, PlayersOf(files[i])[j][1], PlayersOf(files[i])[j][2]))

\* a record restricted to the given keys
Restrict(record, keys) == [key \in DOMAIN record \cap keys |-> record[key]]

\* the ETL team records of a document, restricted to the team key and each
\* competitor's passthrough statistics
ETL_TeamRecordsRestricted(doc, records) ==
    [k \in DOMAIN records |->
        Restrict(records[k], TeamKey \cup DOMAIN OwnAttribs(doc.totals[k]))]

\* C28: for every document the player records of the ETL pipeline's
\* process_xml_file equal those of the event pipeline's, and the ETL team
\* records restricted to event_id, team_id, team_name, team_qualifier and the
\* passthrough statistics equal the event pipeline's team records.
C28_PipelinesAgree ==
    \A i \in Read :
        LET event_pipeline == process_xml_file(i, files[i], 0, 0)
            etl_pipeline   == ETL_process_xml_file(i, files[i], 0, 0)
        IN /\ etl_pipeline.player_stats = event_pipeline.player_stats
           /\ ETL_TeamRecordsRestricted(files[i], etl_pipeline.team_stats)
                = event_pipeline.team_stats

====
